---- MODULE Spec2Model ----
(***************************************************************************)
(* Recipe API: registration / login, JWT guard and recipe ownership, in    *)
(* the variants the repository holds:                                      *)
(*   "mem"  the in-memory express server          (src/unnamed/part_001)   *)
(*   "exp"  the express + mongoose server          (src/unnamed/part_000,  *)
(*          src/swagger.js holds the same handlers without the             *)
(*          connectToDatabase call)                                        *)
(*   "srv"  the single serverless handler          (src/api/index.js)      *)
(*   "fn"   the one-file-per-route functions       (src/api/recipes.js,    *)
(*          src/api/auth-login.js, src/unnamed/part_002)                   *)
(* One behaviour is one deployment: variant is chosen in Init and kept.    *)
(***************************************************************************)
EXTENDS Integers, Sequences, FiniteSets, Bags, TLC

VARIABLES
    variant,           \* which server of the repository runs
    now,               \* Date.now(), milliseconds since the server started
    ticks,             \* clock advances so far (bounds the run)
    users,             \* the user store: `users` array / User collection
    recipes,           \* the recipe store: `recipes` array / Recipe collection
    madeBy,            \* history: for each stored recipe, who created it
    nextOid,           \* next ObjectId the mongoose driver hands out
    cachedConnection,  \* connectToDatabase's cache (FALSE is null)
    readyState,        \* mongoose.connection.readyState (0 or 1)
    reqs,              \* bag of requests suspended at an await
    limit,             \* how many requests the server is given at a time
    res,               \* the response sent last
    wallet             \* the tokens the clients hold (the latest MaxWallet)

vars == <<variant, now, ticks, users, recipes, madeBy, nextOid,
          cachedConnection, readyState, reqs, limit, res, wallet>>

(***************************************************************************)
(* Bounds of the model.                                                    *)
(***************************************************************************)
MaxTicks == 1
MaxRecipes == 2
MaxOid == 3
MaxReviews == 1
MaxInflight == 2
MaxWallet == 1
MaxSalts == 1

(***************************************************************************)
(* Inputs.                                                                 *)
(***************************************************************************)
Variants == {"mem", "exp", "srv", "fn"}
Usernames == {"alice", "bob"}
\* "" stands for a missing or empty field (both are falsy in the handlers)
Passwords == {"", "abc", "secret1"}
\* the salts bcrypt.genSalt can draw
Salts == {"salt" \o ToString(i) : i \in 1..MaxSalts}

\* jwt.sign's expiresIn, in seconds: '1h', '24h', "1h"
ExpiresInMem == 3600
ExpiresInDb == 86400
ExpiresInFn == 3600
\* the clock moves by the lifetime of the variant's tokens, and by a
\* millisecond where Date.now() names a recipe
TickSteps ==
    IF variant = "mem" THEN {1, 1000 * ExpiresInMem}
    ELSE IF variant = "fn" THEN {1000 * ExpiresInFn}
    ELSE {1000 * ExpiresInDb}
\* bcrypt.hash cost
RoundsSrv == 12
RoundsFn == 10

(***************************************************************************)
(* bcryptjs.  A hash is the string "$2a$<rounds>$<salt>$H(<password>)":    *)
(* the salt and the cost are readable in it, the password only through H.  *)
(***************************************************************************)
BcryptHash(password, rounds, salt) ==
    "$2a$" \o ToString(rounds) \o "$" \o salt \o "$H(" \o password \o ")"

\* compare re-hashes the candidate with the salt and cost found in the hash
BcryptCompare(password, hash) ==
    \E rounds \in {RoundsFn, RoundsSrv}, salt \in Salts : hash = BcryptHash(password, rounds, salt)

(***************************************************************************)
(* jsonwebtoken.  A token is its payload, its exp (seconds) and the key    *)
(* that signed it; "malformed" is a string that is no JWT at all.          *)
(***************************************************************************)
ServerKey == "JWT_SECRET"
ForgedKey == "not-the-secret"

NoPayload == [none |-> TRUE]
NoToken == [kind |-> "undefined", payload |-> NoPayload, iat |-> 0, exp |-> 0,
            key |-> ""]
MalformedToken == [kind |-> "malformed", payload |-> NoPayload, iat |-> 0,
                   exp |-> 0, key |-> ""]

NowSeconds == now \div 1000

JwtSign(payload, expiresIn) ==
    [kind |-> "jwt", payload |-> payload, iat |-> NowSeconds,
     exp |-> NowSeconds + expiresIn, key |-> ServerKey]

\* jwt.verify: "ok", or the name of the error it raises
JwtVerify(token) ==
    IF token.kind # "jwt" THEN "JsonWebTokenError"
    ELSE IF token.key # ServerKey THEN "JsonWebTokenError"
    ELSE IF NowSeconds >= token.exp THEN "TokenExpiredError"
    ELSE "ok"

(***************************************************************************)
(* The Authorization header: absent, a scheme with no second word, or      *)
(* "Bearer <token>".  authHeader && authHeader.split(' ')[1]               *)
(***************************************************************************)
NoHeader == [hdr |-> "absent", tok |-> NoToken]
SchemeOnly == [hdr |-> "scheme-only", tok |-> NoToken]
Bearer(t) == [hdr |-> "bearer", tok |-> t]

ExtractToken(auth) == IF auth.hdr = "bearer" THEN auth.tok ELSE NoToken

(***************************************************************************)
(* Requests and responses.                                                 *)
(***************************************************************************)
NoData == [none |-> TRUE]

Request(op, auth, id, body, username, password) ==
    [op |-> op, auth |-> auth, id |-> id, body |-> body,
     username |-> username, password |-> password]

NoRequest == Request("none", NoHeader, "", NoData, "", "")

\* res.status(status).json(...) answering req: `error` is the body's error
\* string and `message` its message string ("" when it has none), `data` the
\* document it carries; `calls` lists the store calls made for the request
Response(req, status, error, message, data, calls) ==
    [req |-> req, status |-> status, error |-> error, message |-> message,
     data |-> data, calls |-> calls]

NoResponse == Response(NoRequest, 0, "", "", NoData, <<>>)

\* { ...a, ...b }
Spread(a, b) ==
    [k \in DOMAIN a \cup DOMAIN b |-> IF k \in DOMAIN b THEN b[k] ELSE a[k]]

\* the named properties of a body that the body defines
Pick(body, keys) == [k \in DOMAIN body \cap keys |-> body[k]]

\* array.findIndex(match): `matches` tells for each index whether the
\* callback matches; the first index that matches, 0 for JavaScript's -1
FindIndex(matches) ==
    IF \E i \in 1..Len(matches) : matches[i]
    THEN CHOOSE i \in 1..Len(matches) :
             /\ matches[i]
             /\ \A j \in 1..(i - 1) : ~matches[j]
    ELSE 0

\* array.splice(index, 1)
Splice(array, index) ==
    [i \in 1..(Len(array) - 1) |-> IF i < index THEN array[i] ELSE array[i + 1]]

(***************************************************************************)
(* What a client can send.                                                 *)
(***************************************************************************)
WalletTokens == wallet

\* the client keeps the token of a response, dropping older ones beyond MaxWallet
Keep(token) ==
    {w \in SUBSET (wallet \cup {token}) :
        /\ token \in w
        /\ Cardinality(w) = IF Cardinality(wallet \cup {token}) < MaxWallet
                            THEN Cardinality(wallet \cup {token}) ELSE MaxWallet}

AuthInputs ==
    {NoHeader, SchemeOnly, Bearer(MalformedToken)}
        \cup {Bearer(t) : t \in WalletTokens}
        \cup {Bearer([t EXCEPT !.key = ForgedKey]) : t \in WalletTokens}

\* ObjectIds: Oid(0) is well formed and names no document
Oid(n) == "oid" \o ToString(n)
MalformedId == "not-an-objectid"
MissingId == IF variant = "mem" THEN "missing" ELSE Oid(0)

\* the identities a recipe can name as its creator
Identities ==
    IF variant = "mem" THEN Usernames
    ELSE {users[i]._id : i \in 1..Len(users)}

\* a path id: a stored recipe's, one that names nothing, and (for mongoose)
\* one that is no ObjectId
IdInputs ==
    IF variant = "mem"
    THEN {recipes[i].id : i \in 1..Len(recipes)} \cup {MissingId}
    ELSE {recipes[i]._id : i \in 1..Len(recipes)} \cup {MissingId, MalformedId}

TeaFields ==
    [title |-> "Tea", ingredients |-> <<"water", "tea">>,
     instructions |-> "Boil water", cookingTime |-> 5, servings |-> 1]

\* a full body, one that names a creator, and (where the handler validates)
\* one with no title and no instructions
CreateBodies ==
    {TeaFields}
        \cup {Spread(TeaFields, [createdBy |-> x]) : x \in Identities}
        \cup (IF variant = "mem" THEN {} ELSE {[ingredients |-> <<"water">>]})

\* a new title, a new creator, and (where the handler spreads the body over
\* the stored object) another id
UpdateBodies ==
    {[title |-> "Pie"]}
        \cup {[createdBy |-> x] : x \in Identities}
        \cup (IF variant = "mem" THEN {[id |-> "other-id"]} ELSE {})

ReviewBodies == {[rating |-> 5, comment |-> "nice"]}


\* the client has read the last response; the server takes another request
Ready == res = NoResponse
Accepting == Ready /\ BagCardinality(reqs) < limit

(***************************************************************************)
(* The in-memory server (src/unnamed/part_001).  Its handlers are          *)
(* synchronous: a request is served in one step.                           *)
(***************************************************************************)
MemGenerateToken(payload) == JwtSign(payload, ExpiresInMem)

\* the middleware: status 0 stands for next()
MemAuthenticateToken(auth) ==
    LET token == ExtractToken(auth) IN
    IF token.kind = "undefined"
    THEN [status |-> 401, error |-> "No token provided", user |-> NoPayload]
    ELSE IF JwtVerify(token) # "ok"
    THEN [status |-> 403, error |-> "Invalid token", user |-> NoPayload]
    ELSE [status |-> 0, error |-> "", user |-> token.payload]

MemRegister(username, password) ==
    LET req == Request("register", NoHeader, "", NoData, username, password)
        token == MemGenerateToken([username |-> username])
    IN
    /\ variant = "mem"
    /\ Accepting
    /\ IF \E i \in 1..Len(users) : users[i].username = username
       THEN /\ res' = Response(req, 400, "Username already exists", "", NoData,
                               <<"users.find">>)
            /\ UNCHANGED <<users, wallet>>
       ELSE /\ users' = Append(users, [username |-> username, password |-> password])
            /\ res' = Response(req, 201, "", "", [token |-> token],
                               <<"users.find", "users.push">>)
            /\ wallet' \in Keep(token)
    /\ UNCHANGED <<variant, limit, now, ticks, recipes, madeBy, nextOid,
                   cachedConnection, readyState, reqs>>

MemLogin(username, password) ==
    LET req == Request("login", NoHeader, "", NoData, username, password)
        token == MemGenerateToken([username |-> username])
    IN
    /\ variant = "mem"
    /\ Accepting
    /\ IF ~\E i \in 1..Len(users) :
              users[i].username = username /\ users[i].password = password
       THEN /\ res' = Response(req, 401, "Invalid credentials", "", NoData,
                               <<"users.find">>)
            /\ UNCHANGED wallet
       ELSE /\ res' = Response(req, 200, "", "", [token |-> token],
                               <<"users.find">>)
            /\ wallet' \in Keep(token)
    /\ UNCHANGED <<variant, limit, now, ticks, users, recipes, madeBy, nextOid,
                   cachedConnection, readyState, reqs>>

\* the recipe as a handler that spread the whole body last would build it
MemNewRecipeFromBody(body, user) ==
    Spread([id |-> ToString(now), createdBy |-> user.username],
           Pick(body, {"title", "ingredients", "instructions", "createdBy"}))

MemNewRecipe(body, user) ==
    Spread(Pick(body, {"title", "ingredients", "instructions"}),
           [id |-> ToString(now), createdBy |-> user.username])

MemCreate(auth, body) ==
    LET req == Request("create", auth, "", body, "", "")
        a == MemAuthenticateToken(auth)
        newRecipe == MemNewRecipe(body, a.user)
    IN
    /\ variant = "mem"
    /\ Accepting
    /\ IF a.status # 0
       THEN /\ res' = Response(req, a.status, a.error, "", NoData, <<>>)
            /\ UNCHANGED <<recipes, madeBy>>
       ELSE /\ Len(recipes) < MaxRecipes
            /\ recipes' = Append(recipes, newRecipe)
            /\ madeBy' = Append(madeBy, a.user.username)
            /\ res' = Response(req, 201, "", "", newRecipe, <<"recipes.push">>)
    /\ UNCHANGED <<variant, limit, now, ticks, users, nextOid, cachedConnection,
                   readyState, reqs, wallet>>

\* the recipes that hold reviews
ReviewCount ==
    Cardinality({i \in 1..Len(recipes) : "reviews" \in DOMAIN recipes[i]})

MemReview(auth, id, body) ==
    LET req == Request("review", auth, id, body, "", "")
        a == MemAuthenticateToken(auth)
        index == FindIndex([i \in 1..Len(recipes) |-> recipes[i].id = id])
        recipe == recipes[index]
        reviews == IF "reviews" \in DOMAIN recipe THEN recipe.reviews ELSE <<>>
        review == [id |-> ToString(now), rating |-> body.rating,
                   comment |-> body.comment, user |-> a.user.username]
    IN
    /\ variant = "mem"
    /\ Accepting
    /\ IF a.status # 0
       THEN /\ res' = Response(req, a.status, a.error, "", NoData, <<>>)
            /\ UNCHANGED recipes
       ELSE IF index = 0
       THEN /\ res' = Response(req, 404, "Recipe not found", "", NoData,
                               <<"recipes.find">>)
            /\ UNCHANGED recipes
       ELSE /\ ReviewCount < MaxReviews
            /\ Len(reviews) < MaxReviews
            /\ recipes' = [recipes EXCEPT ![index] =
                   Spread(recipe, [reviews |-> Append(reviews, review)])]
            /\ res' = Response(req, 201, "", "Review added successfully", NoData,
                               <<"recipes.find", "reviews.push">>)
    /\ UNCHANGED <<variant, limit, now, ticks, users, madeBy, nextOid,
                   cachedConnection, readyState, reqs, wallet>>

\* { ...recipes[index], id: req.params.id, ...req.body }: the body last
MemUpdatedBodyLast(recipe, body, id) == Spread(Spread(recipe, [id |-> id]), body)

\* { ...recipes[index], ...req.body, id: req.params.id }
MemUpdated(recipe, body, id) == Spread(Spread(recipe, body), [id |-> id])

MemUpdate(auth, id, body) ==
    LET req == Request("update", auth, id, body, "", "")
        a == MemAuthenticateToken(auth)
        index == FindIndex([i \in 1..Len(recipes) |-> recipes[i].id = id])
        updated == MemUpdated(recipes[index], body, id)
    IN
    /\ variant = "mem"
    /\ Accepting
    /\ IF a.status # 0
       THEN /\ res' = Response(req, a.status, a.error, "", NoData, <<>>)
            /\ UNCHANGED recipes
       ELSE IF index = 0
       THEN /\ res' = Response(req, 404, "Recipe not found", "", NoData,
                               <<"recipes.findIndex">>)
            /\ UNCHANGED recipes
       ELSE IF recipes[index].createdBy # a.user.username
       THEN /\ res' = Response(req, 403, "Not authorized to update this recipe",
                               "", NoData, <<"recipes.findIndex">>)
            /\ UNCHANGED recipes
       ELSE /\ recipes' = [recipes EXCEPT ![index] = updated]
            /\ res' = Response(req, 200, "", "", updated,
                               <<"recipes.findIndex", "recipes[index]=">>)
    /\ UNCHANGED <<variant, limit, now, ticks, users, madeBy, nextOid,
                   cachedConnection, readyState, reqs, wallet>>

\* a delete that splices before it compares createdBy with the requester
MemDeleteSpliceFirst(auth, id) ==
    LET req == Request("delete", auth, id, NoData, "", "")
        a == MemAuthenticateToken(auth)
        index == FindIndex([i \in 1..Len(recipes) |-> recipes[i].id = id])
    IN
    /\ variant = "mem"
    /\ Accepting
    /\ IF a.status # 0
       THEN /\ res' = Response(req, a.status, a.error, "", NoData, <<>>)
            /\ UNCHANGED <<recipes, madeBy>>
       ELSE IF index = 0
       THEN /\ res' = Response(req, 404, "Recipe not found", "", NoData,
                               <<"recipes.findIndex">>)
            /\ UNCHANGED <<recipes, madeBy>>
       ELSE /\ recipes' = Splice(recipes, index)
            /\ madeBy' = Splice(madeBy, index)
            /\ res' = IF recipes[index].createdBy # a.user.username
                      THEN Response(req, 403, "Not authorized to delete this recipe",
                                    "", NoData,
                                    <<"recipes.findIndex", "recipes.splice">>)
                      ELSE Response(req, 204, "", "", NoData,
                                    <<"recipes.findIndex", "recipes.splice">>)
    /\ UNCHANGED <<variant, limit, now, ticks, users, nextOid, cachedConnection,
                   readyState, reqs, wallet>>

MemDelete(auth, id) ==
    LET req == Request("delete", auth, id, NoData, "", "")
        a == MemAuthenticateToken(auth)
        index == FindIndex([i \in 1..Len(recipes) |-> recipes[i].id = id])
    IN
    /\ variant = "mem"
    /\ Accepting
    /\ IF a.status # 0
       THEN /\ res' = Response(req, a.status, a.error, "", NoData, <<>>)
            /\ UNCHANGED <<recipes, madeBy>>
       ELSE IF index = 0
       THEN /\ res' = Response(req, 404, "Recipe not found", "", NoData,
                               <<"recipes.findIndex">>)
            /\ UNCHANGED <<recipes, madeBy>>
       ELSE IF recipes[index].createdBy # a.user.username
       THEN /\ res' = Response(req, 403, "Not authorized to delete this recipe",
                               "", NoData, <<"recipes.findIndex">>)
            /\ UNCHANGED <<recipes, madeBy>>
       ELSE /\ recipes' = Splice(recipes, index)
            /\ madeBy' = Splice(madeBy, index)
            /\ res' = Response(req, 204, "", "", NoData,
                               <<"recipes.findIndex", "recipes.splice">>)
    /\ UNCHANGED <<variant, limit, now, ticks, users, nextOid, cachedConnection,
                   readyState, reqs, wallet>>

(***************************************************************************)
(* mongoose, as the three MongoDB-backed variants use it.  A collection is *)
(* the sequence of its documents in insertion order.                       *)
(***************************************************************************)
IsValidObjectId(id) == \E n \in 0..MaxOid : id = Oid(n)

\* the paths of RecipeSchema: an update sets these and drops every other key
RecipePaths ==
    {"title", "ingredients", "instructions", "cookingTime", "servings",
     "createdBy", "createdAt"}

\* queries that lose their filter: findOne that never matches, findById that
\* falls back on the first document
FindUserNone(username) == 0
FindRecipeAny(id) ==
    IF \E i \in 1..Len(recipes) : recipes[i]._id = id
    THEN FindIndex([i \in 1..Len(recipes) |-> recipes[i]._id = id])
    ELSE IF Len(recipes) > 0 THEN 1 ELSE 0

\* Model.findOne / Model.findById: the index of the document, 0 for null
FindUser(username) == FindIndex([i \in 1..Len(users) |-> users[i].username = username])
FindRecipe(id) == FindIndex([i \in 1..Len(recipes) |-> recipes[i]._id = id])

\* a users collection whose username index is not unique
NoUniqueIndex(username) == FALSE

\* username: { unique: true }: the index rejects a save of a second document
\* with the username
DuplicateKey(username) == FindUser(username) # 0

\* new User({...}) with the _id the driver assigns
NewUser(username, hashedPassword) ==
    [_id |-> Oid(nextOid), username |-> username, password |-> hashedPassword]

\* new Recipe({...}): the fields given, the creator, _id and the createdAt default
NewRecipe(fields, createdBy) ==
    Spread(fields, [_id |-> Oid(nextOid), createdBy |-> createdBy, createdAt |-> now])

\* a request suspended between its read and its write
Pending(req, calls) == [req |-> req, calls |-> calls]

Suspend(p) == reqs (+) SetToBag({p})
Resume(p) == reqs (-) SetToBag({p})

(***************************************************************************)
(* The serverless handler (src/api/index.js).  A step runs from one        *)
(* database call to the next: the handler's code between two awaits, with  *)
(* the call that ends it.                                                  *)
(***************************************************************************)
\* connectToDatabase: the outcomes of one call.  `called` tells whether
\* mongoose.connect was called, `ok` whether the function returned
\* a connectToDatabase that assigns the cache before it awaits the connect
SrvConnectCachingFirst ==
    IF cachedConnection /\ readyState = 1
    THEN {[ok |-> TRUE, called |-> FALSE, cached |-> TRUE, ready |-> 1]}
    ELSE {[ok |-> TRUE, called |-> TRUE, cached |-> TRUE, ready |-> 1],
          [ok |-> FALSE, called |-> TRUE, cached |-> TRUE, ready |-> readyState],
          [ok |-> FALSE, called |-> FALSE, cached |-> cachedConnection,
           ready |-> readyState]}

SrvConnectToDatabase ==
    IF cachedConnection /\ readyState = 1
    THEN {[ok |-> TRUE, called |-> FALSE, cached |-> TRUE, ready |-> 1]}
    ELSE {[ok |-> TRUE, called |-> TRUE, cached |-> TRUE, ready |-> 1],
          \* mongoose.connect rejects
          [ok |-> FALSE, called |-> TRUE, cached |-> cachedConnection,
           ready |-> readyState],
          \* MONGO_URI is not defined
          [ok |-> FALSE, called |-> FALSE, cached |-> cachedConnection,
           ready |-> readyState]}

ConnectCalls(c) == IF c.called THEN <<"mongoose.connect">> ELSE <<>>

\* authenticateToken(req): the claim, or the message of the Error it throws
SrvAuthenticateToken(auth) ==
    LET token == ExtractToken(auth) IN
    IF token.kind = "undefined"
    THEN [error |-> "Access token required", user |-> NoPayload]
    ELSE IF JwtVerify(token) # "ok"
    THEN [error |-> "Invalid token", user |-> NoPayload]
    ELSE [error |-> "", user |-> token.payload]

\* the catch block: what an Error with this message is answered with
SrvCatch(req, message, calls) ==
    IF message \in {"Access token required", "Invalid token"}
    THEN Response(req, 401, message, "", NoData, calls)
    ELSE Response(req, 500, "Internal server error", message, NoData, calls)

SrvRegister(username, password) ==
    LET req == Request("register", NoHeader, "", NoData, username, password) IN
    /\ variant = "srv"
    /\ Accepting
    /\ \E c \in SrvConnectToDatabase :
        LET calls == ConnectCalls(c) IN
        /\ cachedConnection' = c.cached
        /\ readyState' = c.ready
        /\ IF ~c.ok
           THEN /\ res' = SrvCatch(req, "connect failed", calls)
                /\ UNCHANGED reqs
           ELSE IF username = "" \/ password = ""
           THEN /\ res' = Response(req, 400, "Username and password are required",
                                   "", NoData, calls)
                /\ UNCHANGED reqs
           ELSE IF Len(password) < 6
           THEN /\ res' = Response(req, 400,
                                   "Password must be at least 6 characters",
                                   "", NoData, calls)
                /\ UNCHANGED reqs
           ELSE IF FindUser(username) # 0
           THEN /\ res' = Response(req, 400, "Username already exists", "",
                                   NoData, calls \o <<"User.findOne">>)
                /\ UNCHANGED reqs
           ELSE /\ reqs' = Suspend(Pending(req, calls \o <<"User.findOne">>))
                /\ UNCHANGED res
    /\ UNCHANGED <<variant, limit, now, ticks, users, recipes, madeBy, nextOid, wallet>>

\* bcrypt.hash, new User, user.save(): the unique index rejects a second
\* document with the username
SrvRegisterSave(p, salt) ==
    LET user == NewUser(p.req.username,
                        BcryptHash(p.req.password, RoundsSrv, salt))
        calls == p.calls \o <<"user.save">>
    IN
    /\ variant = "srv"
    /\ Ready
    /\ p \in BagToSet(reqs)
    /\ p.req.op = "register"
    /\ reqs' = Resume(p)
    /\ IF readyState # 1
       THEN /\ res' = SrvCatch(p.req, "not connected", calls)
            /\ UNCHANGED <<users, nextOid>>
       ELSE IF DuplicateKey(p.req.username)
       THEN /\ res' = SrvCatch(p.req, "E11000 duplicate key", calls)
            /\ UNCHANGED <<users, nextOid>>
       ELSE /\ nextOid <= MaxOid
            /\ users' = Append(users, user)
            /\ nextOid' = nextOid + 1
            /\ res' = Response(p.req, 201, "", "User registered successfully",
                               [userId |-> user._id], calls)
    /\ UNCHANGED <<variant, limit, now, ticks, recipes, madeBy, cachedConnection,
                   readyState, wallet>>

SrvLogin(username, password) ==
    LET req == Request("login", NoHeader, "", NoData, username, password)
        index == FindUser(username)
        user == users[index]
        token == JwtSign([userId |-> user._id, username |-> user.username],
                         ExpiresInDb)
    IN
    /\ variant = "srv"
    /\ Accepting
    /\ \E c \in SrvConnectToDatabase :
        LET calls == ConnectCalls(c) IN
        /\ cachedConnection' = c.cached
        /\ readyState' = c.ready
        /\ IF ~c.ok
           THEN /\ res' = SrvCatch(req, "connect failed", calls)
                /\ UNCHANGED wallet
           ELSE IF username = "" \/ password = ""
           THEN /\ res' = Response(req, 400, "Username and password are required",
                                   "", NoData, calls)
                /\ UNCHANGED wallet
           ELSE IF index = 0 \/ ~BcryptCompare(password, user.password)
           THEN /\ res' = Response(req, 401, "Invalid credentials", "", NoData,
                                   calls \o <<"User.findOne">>)
                /\ UNCHANGED wallet
           ELSE /\ res' = Response(req, 200, "", "Login successful",
                                   [token |-> token], calls \o <<"User.findOne">>)
                /\ wallet' \in Keep(token)
    /\ UNCHANGED <<variant, limit, now, ticks, users, recipes, madeBy, nextOid, reqs>>

SrvCreate(auth, body) ==
    LET req == Request("create", auth, "", body, "", "")
        a == SrvAuthenticateToken(auth)
        recipe ==
            NewRecipe(Spread([ingredients |-> <<>>],
                             Pick(body, {"title", "ingredients", "instructions",
                                         "cookingTime", "servings"})),
                      a.user.userId)
    IN
    /\ variant = "srv"
    /\ Accepting
    /\ \E c \in SrvConnectToDatabase :
        LET calls == ConnectCalls(c) IN
        /\ cachedConnection' = c.cached
        /\ readyState' = c.ready
        /\ IF ~c.ok
           THEN /\ res' = SrvCatch(req, "connect failed", calls)
                /\ UNCHANGED <<recipes, madeBy, nextOid>>
           ELSE IF a.error # ""
           THEN /\ res' = SrvCatch(req, a.error, calls)
                /\ UNCHANGED <<recipes, madeBy, nextOid>>
           ELSE IF "title" \notin DOMAIN body \/ "instructions" \notin DOMAIN body
           THEN /\ res' = Response(req, 400, "Title and instructions are required",
                                   "", NoData, calls)
                /\ UNCHANGED <<recipes, madeBy, nextOid>>
           ELSE /\ Len(recipes) < MaxRecipes
                /\ nextOid <= MaxOid
                /\ recipes' = Append(recipes, recipe)
                /\ madeBy' = Append(madeBy, a.user.userId)
                /\ nextOid' = nextOid + 1
                /\ res' = Response(req, 201, "", "Recipe created successfully",
                                   recipe, calls \o <<"recipe.save">>)
    /\ UNCHANGED <<variant, limit, now, ticks, users, reqs, wallet>>

\* PUT and DELETE up to Recipe.findById and the checks on what it returns
SrvFind(op, auth, id, body) ==
    LET req == Request(op, auth, id, body, "", "")
        a == SrvAuthenticateToken(auth)
        index == FindRecipe(id)
    IN
    /\ variant = "srv"
    /\ Accepting
    /\ \E c \in SrvConnectToDatabase :
        LET calls == ConnectCalls(c) IN
        /\ cachedConnection' = c.cached
        /\ readyState' = c.ready
        /\ IF ~c.ok
           THEN /\ res' = SrvCatch(req, "connect failed", calls)
                /\ UNCHANGED reqs
           ELSE IF a.error # ""
           THEN /\ res' = SrvCatch(req, a.error, calls)
                /\ UNCHANGED reqs
           ELSE IF ~IsValidObjectId(id)
           THEN /\ res' = Response(req, 400, "Invalid recipe ID", "", NoData, calls)
                /\ UNCHANGED reqs
           ELSE IF index = 0
           THEN /\ res' = Response(req, 404, "Recipe not found", "", NoData,
                                   calls \o <<"Recipe.findById">>)
                /\ UNCHANGED reqs
           ELSE IF recipes[index].createdBy # a.user.userId
           THEN /\ res' = Response(req, 403, "Not authorized", "", NoData,
                                   calls \o <<"Recipe.findById">>)
                /\ UNCHANGED reqs
           ELSE /\ reqs' = Suspend(Pending(req, calls \o <<"Recipe.findById">>))
                /\ UNCHANGED res
    /\ UNCHANGED <<variant, limit, now, ticks, users, recipes, madeBy, nextOid, wallet>>

SrvUpdateFind(auth, id, body) == SrvFind("update", auth, id, body)

SrvDeleteFind(auth, id) == SrvFind("delete", auth, id, NoData)

\* an update that writes only when the document is as its caller read it
\* (here: never, the caller's read is not passed on)
FindByIdAndUpdateGuarded(id, body) == recipes

\* Recipe.findByIdAndUpdate(id, req.body, { new: true })
FindByIdAndUpdate(id, body) ==
    LET index == FindRecipe(id) IN
    IF index = 0 THEN recipes
    ELSE [recipes EXCEPT ![index] = Spread(@, Pick(body, RecipePaths))]

SrvUpdateWrite(p) ==
    LET calls == p.calls \o <<"Recipe.findByIdAndUpdate">>
        index == FindRecipe(p.req.id)
    IN
    /\ variant = "srv"
    /\ Ready
    /\ p \in BagToSet(reqs)
    /\ p.req.op = "update"
    /\ reqs' = Resume(p)
    /\ IF readyState # 1
       THEN /\ res' = SrvCatch(p.req, "not connected", calls)
            /\ UNCHANGED recipes
       ELSE /\ recipes' = FindByIdAndUpdate(p.req.id, p.req.body)
            /\ res' = Response(p.req, 200, "", "Recipe updated successfully",
                               IF index = 0 THEN NoData ELSE recipes'[index],
                               calls)
    /\ UNCHANGED <<variant, limit, now, ticks, users, madeBy, nextOid,
                   cachedConnection, readyState, wallet>>

SrvDeleteWrite(p) ==
    LET calls == p.calls \o <<"Recipe.findByIdAndDelete">>
        index == FindRecipe(p.req.id)
    IN
    /\ variant = "srv"
    /\ Ready
    /\ p \in BagToSet(reqs)
    /\ p.req.op = "delete"
    /\ reqs' = Resume(p)
    /\ IF readyState # 1
       THEN /\ res' = SrvCatch(p.req, "not connected", calls)
            /\ UNCHANGED <<recipes, madeBy>>
       ELSE /\ recipes' = IF index = 0 THEN recipes ELSE Splice(recipes, index)
            /\ madeBy' = IF index = 0 THEN madeBy ELSE Splice(madeBy, index)
            /\ res' = Response(p.req, 200, "", "Recipe deleted successfully",
                               NoData, calls)
    /\ UNCHANGED <<variant, limit, now, ticks, users, nextOid, cachedConnection,
                   readyState, wallet>>

(***************************************************************************)
(* The express + mongoose server (src/unnamed/part_000; src/swagger.js     *)
(* holds the same routes without the connectToDatabase call).  The         *)
(* authenticateToken middleware runs before the route's handler.           *)
(***************************************************************************)
ExpConnectToDatabase ==
    IF cachedConnection
    THEN {[ok |-> TRUE, called |-> FALSE, cached |-> TRUE, ready |-> readyState]}
    ELSE {[ok |-> TRUE, called |-> TRUE, cached |-> TRUE, ready |-> 1],
          \* mongoose.connect rejects
          [ok |-> FALSE, called |-> TRUE, cached |-> FALSE, ready |-> readyState],
          \* MONGO_URI or JWT_SECRET is not defined
          [ok |-> FALSE, called |-> FALSE, cached |-> FALSE, ready |-> readyState]}

\* the middleware: status 0 stands for next()
ExpAuthenticateToken(auth) ==
    LET token == ExtractToken(auth) IN
    IF token.kind = "undefined"
    THEN [status |-> 401, error |-> "Access token required", user |-> NoPayload]
    ELSE IF JwtVerify(token) # "ok"
    THEN [status |-> 403, error |-> "Invalid token", user |-> NoPayload]
    ELSE [status |-> 0, error |-> "", user |-> token.payload]

\* a catch block that tells no CastError from another error
ExpCatchGeneric(req, name, calls) ==
    Response(req, 500, "Internal server error", "", NoData, calls)

\* a route's catch block
ExpCatch(req, name, calls) ==
    IF name = "CastError" /\ req.op \in {"update", "delete", "get"}
    THEN Response(req, 400, "Invalid recipe ID", "", NoData, calls)
    ELSE Response(req, 500, "Internal server error", "", NoData, calls)

ExpRegister(username, password) ==
    LET req == Request("register", NoHeader, "", NoData, username, password) IN
    /\ variant = "exp"
    /\ Accepting
    /\ \E c \in ExpConnectToDatabase :
        LET calls == ConnectCalls(c) IN
        /\ cachedConnection' = c.cached
        /\ readyState' = c.ready
        /\ IF ~c.ok
           THEN /\ res' = ExpCatch(req, "Error", calls)
                /\ UNCHANGED reqs
           ELSE IF username = "" \/ password = ""
           THEN /\ res' = Response(req, 400, "Username and password are required",
                                   "", NoData, calls)
                /\ UNCHANGED reqs
           ELSE IF Len(password) < 6
           THEN /\ res' = Response(req, 400,
                                   "Password must be at least 6 characters long",
                                   "", NoData, calls)
                /\ UNCHANGED reqs
           ELSE IF c.ready # 1
           THEN /\ res' = ExpCatch(req, "MongooseError", calls \o <<"User.findOne">>)
                /\ UNCHANGED reqs
           ELSE IF FindUser(username) # 0
           THEN /\ res' = Response(req, 400, "Username already exists", "",
                                   NoData, calls \o <<"User.findOne">>)
                /\ UNCHANGED reqs
           ELSE /\ reqs' = Suspend(Pending(req, calls \o <<"User.findOne">>))
                /\ UNCHANGED res
    /\ UNCHANGED <<variant, limit, now, ticks, users, recipes, madeBy, nextOid, wallet>>

ExpRegisterSave(p, salt) ==
    LET user == NewUser(p.req.username,
                        BcryptHash(p.req.password, RoundsSrv, salt))
        calls == p.calls \o <<"user.save">>
    IN
    /\ variant = "exp"
    /\ Ready
    /\ p \in BagToSet(reqs)
    /\ p.req.op = "register"
    /\ reqs' = Resume(p)
    /\ IF readyState # 1
       THEN /\ res' = ExpCatch(p.req, "MongooseError", calls)
            /\ UNCHANGED <<users, nextOid>>
       ELSE IF DuplicateKey(p.req.username)
       THEN /\ res' = ExpCatch(p.req, "MongoServerError", calls)
            /\ UNCHANGED <<users, nextOid>>
       ELSE /\ nextOid <= MaxOid
            /\ users' = Append(users, user)
            /\ nextOid' = nextOid + 1
            /\ res' = Response(p.req, 201, "", "User registered successfully",
                               [userId |-> user._id], calls)
    /\ UNCHANGED <<variant, limit, now, ticks, recipes, madeBy, cachedConnection,
                   readyState, wallet>>

ExpLogin(username, password) ==
    LET req == Request("login", NoHeader, "", NoData, username, password)
        index == FindUser(username)
        user == users[index]
        token == JwtSign([userId |-> user._id, username |-> user.username],
                         ExpiresInDb)
    IN
    /\ variant = "exp"
    /\ Accepting
    /\ \E c \in ExpConnectToDatabase :
        LET calls == ConnectCalls(c) IN
        /\ cachedConnection' = c.cached
        /\ readyState' = c.ready
        /\ IF ~c.ok
           THEN /\ res' = ExpCatch(req, "Error", calls)
                /\ UNCHANGED wallet
           ELSE IF username = "" \/ password = ""
           THEN /\ res' = Response(req, 400, "Username and password are required",
                                   "", NoData, calls)
                /\ UNCHANGED wallet
           ELSE IF c.ready # 1
           THEN /\ res' = ExpCatch(req, "MongooseError", calls \o <<"User.findOne">>)
                /\ UNCHANGED wallet
           ELSE IF index = 0
           THEN /\ res' = Response(req, 401, "Invalid credentials", "", NoData,
                                   calls \o <<"User.findOne">>)
                /\ UNCHANGED wallet
           ELSE IF ~BcryptCompare(password, user.password)
           THEN /\ res' = Response(req, 401, "Invalid credentials", "", NoData,
                                   calls \o <<"User.findOne">>)
                /\ UNCHANGED wallet
           ELSE /\ res' = Response(req, 200, "", "Login successful",
                                   [token |-> token], calls \o <<"User.findOne">>)
                /\ wallet' \in Keep(token)
    /\ UNCHANGED <<variant, limit, now, ticks, users, recipes, madeBy, nextOid, reqs>>

ExpCreate(auth, body) ==
    LET req == Request("create", auth, "", body, "", "")
        a == ExpAuthenticateToken(auth)
        recipe ==
            NewRecipe(Spread([ingredients |-> <<>>],
                             Pick(body, {"title", "ingredients", "instructions",
                                         "cookingTime", "servings"})),
                      a.user.userId)
    IN
    /\ variant = "exp"
    /\ Accepting
    /\ IF a.status # 0
       THEN /\ res' = Response(req, a.status, a.error, "", NoData, <<>>)
            /\ UNCHANGED <<recipes, madeBy, nextOid, cachedConnection, readyState>>
       ELSE \E c \in ExpConnectToDatabase :
        LET calls == ConnectCalls(c) IN
        /\ cachedConnection' = c.cached
        /\ readyState' = c.ready
        /\ IF ~c.ok
           THEN /\ res' = ExpCatch(req, "Error", calls)
                /\ UNCHANGED <<recipes, madeBy, nextOid>>
           ELSE IF "title" \notin DOMAIN body \/ "instructions" \notin DOMAIN body
           THEN /\ res' = Response(req, 400, "Title and instructions are required",
                                   "", NoData, calls)
                /\ UNCHANGED <<recipes, madeBy, nextOid>>
           ELSE IF c.ready # 1
           THEN /\ res' = ExpCatch(req, "MongooseError", calls \o <<"recipe.save">>)
                /\ UNCHANGED <<recipes, madeBy, nextOid>>
           ELSE /\ Len(recipes) < MaxRecipes
                /\ nextOid <= MaxOid
                /\ recipes' = Append(recipes, recipe)
                /\ madeBy' = Append(madeBy, a.user.userId)
                /\ nextOid' = nextOid + 1
                /\ res' = Response(req, 201, "", "Recipe created successfully",
                                   recipe, calls \o <<"recipe.save">>)
    /\ UNCHANGED <<variant, limit, now, ticks, users, reqs, wallet>>

\* PUT and DELETE up to Recipe.findById and the checks on what it returns
ExpFind(op, auth, id, body) ==
    LET req == Request(op, auth, id, body, "", "")
        a == ExpAuthenticateToken(auth)
        index == FindRecipe(id)
    IN
    /\ variant = "exp"
    /\ Accepting
    /\ IF a.status # 0
       THEN /\ res' = Response(req, a.status, a.error, "", NoData, <<>>)
            /\ UNCHANGED <<reqs, cachedConnection, readyState>>
       ELSE \E c \in ExpConnectToDatabase :
        LET calls == ConnectCalls(c) IN
        /\ cachedConnection' = c.cached
        /\ readyState' = c.ready
        /\ IF ~c.ok
           THEN /\ res' = ExpCatch(req, "Error", calls)
                /\ UNCHANGED reqs
           ELSE IF ~IsValidObjectId(id)
           THEN /\ res' = ExpCatch(req, "CastError", calls)
                /\ UNCHANGED reqs
           ELSE IF c.ready # 1
           THEN /\ res' = ExpCatch(req, "MongooseError",
                                   calls \o <<"Recipe.findById">>)
                /\ UNCHANGED reqs
           ELSE IF index = 0
           THEN /\ res' = Response(req, 404, "Recipe not found", "", NoData,
                                   calls \o <<"Recipe.findById">>)
                /\ UNCHANGED reqs
           ELSE IF recipes[index].createdBy # a.user.userId
           THEN /\ res' = Response(req, 403,
                                   IF op = "update"
                                   THEN "Not authorized to update this recipe"
                                   ELSE "Not authorized to delete this recipe",
                                   "", NoData, calls \o <<"Recipe.findById">>)
                /\ UNCHANGED reqs
           ELSE /\ reqs' = Suspend(Pending(req, calls \o <<"Recipe.findById">>))
                /\ UNCHANGED res
    /\ UNCHANGED <<variant, limit, now, ticks, users, recipes, madeBy, nextOid, wallet>>

ExpUpdateFind(auth, id, body) == ExpFind("update", auth, id, body)

ExpDeleteFind(auth, id) == ExpFind("delete", auth, id, NoData)

ExpUpdateWrite(p) ==
    LET calls == p.calls \o <<"Recipe.findByIdAndUpdate">>
        index == FindRecipe(p.req.id)
    IN
    /\ variant = "exp"
    /\ Ready
    /\ p \in BagToSet(reqs)
    /\ p.req.op = "update"
    /\ reqs' = Resume(p)
    /\ IF readyState # 1
       THEN /\ res' = ExpCatch(p.req, "MongooseError", calls)
            /\ UNCHANGED recipes
       ELSE /\ recipes' = FindByIdAndUpdate(p.req.id, p.req.body)
            /\ res' = Response(p.req, 200, "", "Recipe updated successfully",
                               IF index = 0 THEN NoData ELSE recipes'[index],
                               calls)
    /\ UNCHANGED <<variant, limit, now, ticks, users, madeBy, nextOid,
                   cachedConnection, readyState, wallet>>

ExpDeleteWrite(p) ==
    LET calls == p.calls \o <<"Recipe.findByIdAndDelete">>
        index == FindRecipe(p.req.id)
    IN
    /\ variant = "exp"
    /\ Ready
    /\ p \in BagToSet(reqs)
    /\ p.req.op = "delete"
    /\ reqs' = Resume(p)
    /\ IF readyState # 1
       THEN /\ res' = ExpCatch(p.req, "MongooseError", calls)
            /\ UNCHANGED <<recipes, madeBy>>
       ELSE /\ recipes' = IF index = 0 THEN recipes ELSE Splice(recipes, index)
            /\ madeBy' = IF index = 0 THEN madeBy ELSE Splice(madeBy, index)
            /\ res' = Response(p.req, 200, "", "Recipe deleted successfully",
                               NoData, calls)
    /\ UNCHANGED <<variant, limit, now, ticks, users, nextOid, cachedConnection,
                   readyState, wallet>>

(***************************************************************************)
(* The one-file-per-route functions: register (src/unnamed/part_002),      *)
(* login (src/api/auth-login.js) and recipes (src/api/recipes.js).         *)
(* utils/dbConnect and utils/models/User are not among the sources.        *)
(***************************************************************************)
\* dbConnect(): it returns once connected, or throws
FnDbConnect ==
    IF readyState = 1
    THEN {[ok |-> TRUE, called |-> FALSE, cached |-> cachedConnection, ready |-> 1]}
    ELSE {[ok |-> TRUE, called |-> TRUE, cached |-> cachedConnection, ready |-> 1],
          [ok |-> FALSE, called |-> TRUE, cached |-> cachedConnection,
           ready |-> readyState]}

\* the User model's username is unique (data model, section 3)
FnUsernameUnique == TRUE

\* a handler that throws: the platform answers 500
FnThrow(req, calls) ==
    Response(req, 500, "Internal Server Error", "", NoData, calls)

FnRegister(username, password) ==
    LET req == Request("register", NoHeader, "", NoData, username, password) IN
    /\ variant = "fn"
    /\ Accepting
    /\ \E c \in FnDbConnect :
        LET calls == ConnectCalls(c) IN
        /\ readyState' = c.ready
        /\ IF ~c.ok
           THEN /\ res' = FnThrow(req, calls)
                /\ UNCHANGED reqs
           ELSE IF username = "" \/ password = ""
           THEN /\ res' = Response(req, 400, "Missing fields", "", NoData, calls)
                /\ UNCHANGED reqs
           ELSE IF FindUser(username) # 0
           THEN /\ res' = Response(req, 400, "Username already exists", "",
                                   NoData, calls \o <<"User.findOne">>)
                /\ UNCHANGED reqs
           ELSE /\ reqs' = Suspend(Pending(req, calls \o <<"User.findOne">>))
                /\ UNCHANGED res
    /\ UNCHANGED <<variant, limit, now, ticks, users, recipes, madeBy, nextOid,
                   cachedConnection, wallet>>

FnRegisterSave(p, salt) ==
    LET user == NewUser(p.req.username,
                        BcryptHash(p.req.password, RoundsFn, salt))
        calls == p.calls \o <<"user.save">>
    IN
    /\ variant = "fn"
    /\ Ready
    /\ p \in BagToSet(reqs)
    /\ p.req.op = "register"
    /\ reqs' = Resume(p)
    /\ IF readyState # 1
       THEN /\ res' = FnThrow(p.req, calls)
            /\ UNCHANGED <<users, nextOid>>
       ELSE IF FnUsernameUnique /\ DuplicateKey(p.req.username)
       THEN /\ res' = FnThrow(p.req, calls)
            /\ UNCHANGED <<users, nextOid>>
       ELSE /\ nextOid <= MaxOid
            /\ users' = Append(users, user)
            /\ nextOid' = nextOid + 1
            /\ res' = Response(p.req, 200, "", "User registered", NoData, calls)
    /\ UNCHANGED <<variant, limit, now, ticks, recipes, madeBy, cachedConnection,
                   readyState, wallet>>

FnLogin(username, password) ==
    LET req == Request("login", NoHeader, "", NoData, username, password)
        index == FindUser(username)
        user == users[index]
        token == JwtSign([id |-> user._id], ExpiresInFn)
    IN
    /\ variant = "fn"
    /\ Accepting
    /\ \E c \in FnDbConnect :
        LET calls == ConnectCalls(c) IN
        /\ readyState' = c.ready
        /\ IF ~c.ok
           THEN /\ res' = FnThrow(req, calls)
                /\ UNCHANGED wallet
           ELSE IF index = 0
           THEN /\ res' = Response(req, 400, "User not found", "", NoData,
                                   calls \o <<"User.findOne">>)
                /\ UNCHANGED wallet
           ELSE IF ~BcryptCompare(password, user.password)
           THEN /\ res' = Response(req, 401, "Invalid password", "", NoData,
                                   calls \o <<"User.findOne">>)
                /\ UNCHANGED wallet
           ELSE /\ res' = Response(req, 200, "", "", [token |-> token],
                                   calls \o <<"User.findOne">>)
                /\ wallet' \in Keep(token)
    /\ UNCHANGED <<variant, limit, now, ticks, users, recipes, madeBy, nextOid,
                   cachedConnection, reqs>>

\* POST of recipes.js: the schema of utils/models/Recipe.js has no createdAt
\* and requires nothing
FnCreate(auth, body) ==
    LET req == Request("create", auth, "", body, "", "")
        token == ExtractToken(auth)
        userId == token.payload.id
        recipe ==
            Spread(Pick(body, {"title", "ingredients", "instructions"}),
                   [_id |-> Oid(nextOid), createdBy |-> userId])
    IN
    /\ variant = "fn"
    /\ Accepting
    /\ \E c \in FnDbConnect :
        LET calls == ConnectCalls(c) IN
        /\ readyState' = c.ready
        /\ IF ~c.ok
           THEN /\ res' = FnThrow(req, calls)
                /\ UNCHANGED <<recipes, madeBy, nextOid>>
           ELSE IF token.kind = "undefined"
           THEN /\ res' = Response(req, 401, "Unauthorized", "", NoData, calls)
                /\ UNCHANGED <<recipes, madeBy, nextOid>>
           ELSE IF JwtVerify(token) # "ok"
           THEN /\ res' = Response(req, 401, "Unauthorized", "", NoData, calls)
                /\ UNCHANGED <<recipes, madeBy, nextOid>>
           ELSE /\ Len(recipes) < MaxRecipes
                /\ nextOid <= MaxOid
                /\ recipes' = Append(recipes, recipe)
                /\ madeBy' = Append(madeBy, userId)
                /\ nextOid' = nextOid + 1
                /\ res' = Response(req, 200, "", "Recipe added", NoData,
                                   calls \o <<"recipe.save">>)
    /\ UNCHANGED <<variant, limit, now, ticks, users, cachedConnection, reqs, wallet>>

(***************************************************************************)
(* Reading recipes: GET /recipes and GET /recipes/:id.                     *)
(***************************************************************************)
\* the values a client can give the page and limit query parameters
\* ("absent" is no parameter at all)
QueryInputs == {"absent", "abc", "0", "-1", "1", "2", "3"}

\* parseInt(req.query.x): the integer n, or NaN
ParseInt(text) ==
    CASE text = "0" -> [nan |-> FALSE, n |-> 0]
      [] text = "-1" -> [nan |-> FALSE, n |-> -1]
      [] text = "1" -> [nan |-> FALSE, n |-> 1]
      [] text = "2" -> [nan |-> FALSE, n |-> 2]
      [] text = "3" -> [nan |-> FALSE, n |-> 3]
      [] OTHER -> [nan |-> TRUE, n |-> 0]

\* x || fallback: NaN and 0 are falsy
OrElse(x, fallback) == IF x.nan \/ x.n = 0 THEN fallback ELSE x.n

DefaultPage == 1
DefaultLimit == 10

PageOf(query) == OrElse(ParseInt(query.page), DefaultPage)
LimitOf(query) == OrElse(ParseInt(query.limit), DefaultLimit)

\* Math.ceil(total / limit) for total >= 0 and limit # 0
Ceil(total, lim) ==
    IF lim > 0 THEN (total + lim - 1) \div lim
    ELSE 0 - (total \div (0 - lim))

\* .sort({ createdAt: -1 }): the orders in which the documents can come,
\* documents with one createdAt in any order
SortedByCreatedAtDesc ==
    {order \in [1..Len(recipes) -> 1..Len(recipes)] :
        /\ \A i, j \in 1..Len(recipes) : order[i] = order[j] => i = j
        /\ \A i, j \in 1..Len(recipes) :
               i < j => recipes[order[i]].createdAt >= recipes[order[j]].createdAt}

\* .skip(skip).limit(limit) of the documents in this order, skip >= 0 and
\* limit > 0
SkipLimit(order, skip, lim) ==
    LET from == IF skip < Len(recipes) THEN skip + 1 ELSE Len(recipes) + 1
        upto == IF skip + lim < Len(recipes) THEN skip + lim ELSE Len(recipes)
    IN [i \in 1..(upto - from + 1) |-> recipes[order[from + i - 1]]]

\* .populate('createdBy', 'username')
Populate(recipe) ==
    LET index == FindIndex([i \in 1..Len(users) |-> users[i]._id = recipe.createdBy])
    IN Spread(recipe,
              [createdBy |-> IF index = 0 THEN [null |-> TRUE]
                             ELSE [_id |-> users[index]._id,
                                   username |-> users[index].username]])

PopulateAll(docs) == [i \in 1..Len(docs) |-> Populate(docs[i])]

\* the answers of Recipe.find().populate().sort().skip(skip).limit(limit):
\* the documents, or an error where the server refuses the query (a
\* negative skip); a negative limit is sent as its absolute value or
\* refused, depending on the driver
FindPage(skip, lim) ==
    LET refused == [ok |-> FALSE, docs |-> <<>>]
        Found(n) == {[ok |-> TRUE, docs |-> PopulateAll(SkipLimit(order, skip, n))] :
                        order \in SortedByCreatedAtDesc}
    IN IF skip < 0 THEN {refused}
       ELSE IF lim < 0 THEN {refused} \cup Found(0 - lim)
       ELSE Found(lim)

Pagination(page, lim, total) ==
    [page |-> page, limit |-> lim, total |-> total, pages |-> Ceil(total, lim)]

\* a read that empties the user store
ReadsDropUsers ==
    /\ users' = <<>>
    /\ UNCHANGED <<variant, limit, now, ticks, recipes, madeBy, nextOid, reqs, wallet>>

\* reads leave every store and the clients' tokens alone
ReadOnly ==
    UNCHANGED <<variant, limit, now, ticks, users, recipes, madeBy, nextOid,
                reqs, wallet>>

\* GET /recipes of the in-memory server: the array itself
MemList(auth, query) ==
    LET req == Request("list", auth, "", query, "", "") IN
    /\ variant = "mem"
    /\ Accepting
    /\ res' = Response(req, 200, "", "", [array |-> recipes], <<"recipes">>)
    /\ UNCHANGED <<cachedConnection, readyState>>
    /\ ReadOnly

MemGet(auth, id) ==
    LET req == Request("get", auth, id, NoData, "", "")
        index == FindIndex([i \in 1..Len(recipes) |-> recipes[i].id = id])
    IN
    /\ variant = "mem"
    /\ Accepting
    /\ IF index = 0
       THEN res' = Response(req, 404, "Recipe not found", "", NoData,
                            <<"recipes.find">>)
       ELSE res' = Response(req, 200, "", "", recipes[index], <<"recipes.find">>)
    /\ UNCHANGED <<cachedConnection, readyState>>
    /\ ReadOnly

\* GET /api/recipes of the serverless handler
SrvList(auth, query) ==
    LET req == Request("list", auth, "", query, "", "")
        page == PageOf(query)
        lim == LimitOf(query)
        skip == (page - 1) * lim
        total == Len(recipes)
    IN
    /\ variant = "srv"
    /\ Accepting
    /\ \E c \in SrvConnectToDatabase :
        LET calls == ConnectCalls(c) IN
        /\ cachedConnection' = c.cached
        /\ readyState' = c.ready
        /\ IF ~c.ok
           THEN res' = SrvCatch(req, "connect failed", calls)
           ELSE \E found \in FindPage(skip, lim) :
                   LET all == calls \o <<"Recipe.countDocuments", "Recipe.find">> IN
                   IF ~found.ok
                   THEN res' = SrvCatch(req, "query refused", all)
                   ELSE res' = Response(req, 200, "", "",
                                        [recipes |-> found.docs,
                                         pagination |-> Pagination(page, lim, total)],
                                        all)
    /\ ReadOnly

\* GET /api/recipes/:id of the serverless handler
SrvGet(auth, id) ==
    LET req == Request("get", auth, id, NoData, "", "")
        index == FindRecipe(id)
    IN
    /\ variant = "srv"
    /\ Accepting
    /\ \E c \in SrvConnectToDatabase :
        LET calls == ConnectCalls(c) IN
        /\ cachedConnection' = c.cached
        /\ readyState' = c.ready
        /\ IF ~c.ok
           THEN res' = SrvCatch(req, "connect failed", calls)
           ELSE IF ~IsValidObjectId(id)
           THEN res' = Response(req, 400, "Invalid recipe ID", "", NoData, calls)
           ELSE IF index = 0
           THEN res' = Response(req, 404, "Recipe not found", "", NoData,
                                calls \o <<"Recipe.findById">>)
           ELSE res' = Response(req, 200, "", "", Populate(recipes[index]),
                                calls \o <<"Recipe.findById">>)
    /\ ReadOnly

\* app.get("/recipes") of the express + mongoose server
ExpList(auth, query) ==
    LET req == Request("list", auth, "", query, "", "")
        page == PageOf(query)
        lim == LimitOf(query)
        skip == (page - 1) * lim
        total == Len(recipes)
    IN
    /\ variant = "exp"
    /\ Accepting
    /\ \E c \in ExpConnectToDatabase :
        LET calls == ConnectCalls(c) IN
        /\ cachedConnection' = c.cached
        /\ readyState' = c.ready
        /\ IF ~c.ok
           THEN res' = ExpCatch(req, "Error", calls)
           ELSE IF c.ready # 1
           THEN res' = ExpCatch(req, "MongooseError",
                                calls \o <<"Recipe.countDocuments">>)
           ELSE \E found \in FindPage(skip, lim) :
                   LET all == calls \o <<"Recipe.countDocuments", "Recipe.find">> IN
                   IF ~found.ok
                   THEN res' = ExpCatch(req, "MongoServerError", all)
                   ELSE res' = Response(req, 200, "", "",
                                        [recipes |-> found.docs,
                                         pagination |-> Pagination(page, lim, total)],
                                        all)
    /\ ReadOnly

\* app.get("/recipes/:id") of the express + mongoose server
ExpGet(auth, id) ==
    LET req == Request("get", auth, id, NoData, "", "")
        index == FindRecipe(id)
    IN
    /\ variant = "exp"
    /\ Accepting
    /\ \E c \in ExpConnectToDatabase :
        LET calls == ConnectCalls(c) IN
        /\ cachedConnection' = c.cached
        /\ readyState' = c.ready
        /\ IF ~c.ok
           THEN res' = ExpCatch(req, "Error", calls)
           ELSE IF ~IsValidObjectId(id)
           THEN res' = ExpCatch(req, "CastError", calls)
           ELSE IF c.ready # 1
           THEN res' = ExpCatch(req, "MongooseError", calls \o <<"Recipe.findById">>)
           ELSE IF index = 0
           THEN res' = Response(req, 404, "Recipe not found", "", NoData,
                                calls \o <<"Recipe.findById">>)
           ELSE res' = Response(req, 200, "", "", Populate(recipes[index]),
                                calls \o <<"Recipe.findById">>)
    /\ ReadOnly

\* GET of recipes.js: Recipe.find({ createdBy: userId }), behind the token
FnList(auth, query) ==
    LET req == Request("list", auth, "", query, "", "")
        token == ExtractToken(auth)
        userId == token.payload.id
        own == SelectSeq(recipes, LAMBDA r : r.createdBy = userId)
    IN
    /\ variant = "fn"
    /\ Accepting
    /\ \E c \in FnDbConnect :
        LET calls == ConnectCalls(c) IN
        /\ readyState' = c.ready
        /\ IF ~c.ok
           THEN res' = FnThrow(req, calls)
           ELSE IF token.kind = "undefined"
           THEN res' = Response(req, 401, "Unauthorized", "", NoData, calls)
           ELSE IF JwtVerify(token) # "ok"
           THEN res' = Response(req, 401, "Unauthorized", "", NoData, calls)
           ELSE res' = Response(req, 200, "", "", [array |-> own],
                                calls \o <<"Recipe.find">>)
    /\ UNCHANGED cachedConnection
    /\ ReadOnly

(***************************************************************************)
(* The clock, and the client reading the response it was sent.             *)
(***************************************************************************)
Tick(step) ==
    /\ Ready
    /\ ticks < MaxTicks
    /\ now' = now + step
    /\ ticks' = ticks + 1
    /\ UNCHANGED <<variant, limit, users, recipes, madeBy, nextOid, cachedConnection,
                   readyState, reqs, res, wallet>>

\* the connection to MongoDB is lost: mongoose.connection.readyState leaves 1
Disconnect ==
    /\ Ready
    /\ readyState = 1
    /\ readyState' = 0
    /\ UNCHANGED <<variant, limit, now, ticks, users, recipes, madeBy, nextOid,
                   cachedConnection, reqs, res, wallet>>

ReadResponse ==
    /\ res # NoResponse
    /\ res' = NoResponse
    /\ UNCHANGED <<variant, limit, now, ticks, users, recipes, madeBy, nextOid,
                   cachedConnection, readyState, reqs, wallet>>

InitWith(variants, n) ==
    /\ variant \in variants
    /\ limit = n
    /\ now = 0
    /\ ticks = 0
    /\ users = <<>>
    /\ recipes = <<>>
    /\ madeBy = <<>>
    /\ nextOid = 1
    /\ cachedConnection = FALSE
    /\ readyState = 0
    /\ reqs = EmptyBag
    /\ res = NoResponse
    /\ wallet = {}

(***************************************************************************)
(* Requests arriving, with the passwords a registration may carry, and     *)
(* suspended requests going on.                                            *)
(***************************************************************************)
Register(passwords) ==
    \E username \in Usernames, password \in passwords :
        \/ MemRegister(username, password)
        \/ SrvRegister(username, password)
        \/ ExpRegister(username, password)
        \/ FnRegister(username, password)

Login ==
    \E username \in Usernames, password \in Passwords :
        \/ MemLogin(username, password)
        \/ SrvLogin(username, password)
        \/ ExpLogin(username, password)
        \/ FnLogin(username, password)

Create ==
    \E auth \in AuthInputs, body \in CreateBodies :
        \/ MemCreate(auth, body)
        \/ SrvCreate(auth, body)
        \/ ExpCreate(auth, body)
        \/ FnCreate(auth, body)

Update ==
    \E auth \in AuthInputs, id \in IdInputs, body \in UpdateBodies :
        \/ MemUpdate(auth, id, body)
        \/ SrvUpdateFind(auth, id, body)
        \/ ExpUpdateFind(auth, id, body)

Delete ==
    \E auth \in AuthInputs, id \in IdInputs :
        \/ MemDelete(auth, id)
        \/ SrvDeleteFind(auth, id)
        \/ ExpDeleteFind(auth, id)

\* reads are sent with no header, with a token that is none, or with a token
\* a client holds
ReadAuthInputs ==
    {NoHeader, Bearer(MalformedToken)} \cup {Bearer(t) : t \in WalletTokens}

Queries == [page : QueryInputs, limit : QueryInputs]

List ==
    \E auth \in ReadAuthInputs, query \in Queries :
        \/ MemList(auth, query)
        \/ SrvList(auth, query)
        \/ ExpList(auth, query)
        \/ FnList(auth, query)

Get ==
    \E auth \in ReadAuthInputs, id \in IdInputs :
        \/ MemGet(auth, id)
        \/ SrvGet(auth, id)
        \/ ExpGet(auth, id)

Review ==
    \E auth \in AuthInputs, id \in IdInputs, body \in ReviewBodies :
        MemReview(auth, id, body)

ContinueRegister ==
    \E p \in BagToSet(reqs), salt \in Salts :
        \/ SrvRegisterSave(p, salt)
        \/ ExpRegisterSave(p, salt)
        \/ FnRegisterSave(p, salt)

ContinueWrite ==
    \E p \in BagToSet(reqs) :
        \/ SrvUpdateWrite(p)
        \/ ExpUpdateWrite(p)
        \/ SrvDeleteWrite(p)
        \/ ExpDeleteWrite(p)

(***************************************************************************)
(* Spec: every variant, requests served one after the other, users         *)
(* registering with an acceptable password.                                *)
(***************************************************************************)
Init == InitWith(Variants, 1)

Next ==
    \/ ReadResponse
    \/ \E step \in TickSteps : Tick(step)
    \/ Register({"secret1"})
    \/ Login
    \/ Create
    \/ Update
    \/ Delete
    \/ ContinueRegister
    \/ ContinueWrite

Spec == Init /\ [][Next]_vars

(***************************************************************************)
(* SpecAuth: registration and login only, with every password a client may *)
(* send and up to MaxInflight requests in the server at a time.            *)
(***************************************************************************)
InitAuth == InitWith(Variants, MaxInflight)

NextAuth ==
    \/ ReadResponse
    \/ \E step \in TickSteps : Tick(step)
    \/ Register(Passwords)
    \/ Login
    \/ ContinueRegister

SpecAuth == InitAuth /\ [][NextAuth]_vars

(***************************************************************************)
(* SpecMem: the in-memory server alone, with its review endpoint.          *)
(***************************************************************************)
InitMem == InitWith({"mem"}, 1)

NextMem ==
    \/ ReadResponse
    \/ \E step \in TickSteps : Tick(step)
    \/ \E username \in Usernames : MemRegister(username, "secret1")
    \/ \E username \in Usernames, password \in Passwords :
           MemLogin(username, password)
    \/ \E auth \in AuthInputs, body \in CreateBodies : MemCreate(auth, body)
    \/ Review
    \/ \E auth \in AuthInputs, id \in IdInputs, body \in UpdateBodies :
           MemUpdate(auth, id, body)
    \/ \E auth \in AuthInputs, id \in IdInputs : MemDelete(auth, id)

SpecMem == InitMem /\ [][NextMem]_vars

(***************************************************************************)
(* SpecRead: every variant, recipes created and then listed and read, one  *)
(* request at a time.                                                      *)
(***************************************************************************)
InitRead == InitWith(Variants, 1)

NextRead ==
    \/ ReadResponse
    \/ \E step \in TickSteps : Tick(step)
    \/ Register({"secret1"})
    \/ Login
    \/ Create
    \/ List
    \/ Get
    \/ ContinueRegister

SpecRead == InitRead /\ [][NextRead]_vars

(***************************************************************************)
(* SpecAll: every variant and every operation, one request served at a     *)
(* time; lists are asked with no page and no limit, updates send a title.  *)
(***************************************************************************)
DefaultQuery == [page |-> "absent", limit |-> "absent"]

InitAll == InitWith(Variants, 1)

NextAll ==
    \/ ReadResponse
    \/ \E step \in TickSteps : Tick(step)
    \/ Register({"secret1"})
    \/ Login
    \/ Create
    \/ \E auth \in ReadAuthInputs :
           \/ MemList(auth, DefaultQuery)
           \/ SrvList(auth, DefaultQuery)
           \/ ExpList(auth, DefaultQuery)
           \/ FnList(auth, DefaultQuery)
    \/ Get
    \/ Review
    \/ \E auth \in AuthInputs, id \in IdInputs :
           \/ MemUpdate(auth, id, [title |-> "Pie"])
           \/ SrvUpdateFind(auth, id, [title |-> "Pie"])
           \/ ExpUpdateFind(auth, id, [title |-> "Pie"])
    \/ Delete
    \/ ContinueRegister
    \/ ContinueWrite

SpecAll == InitAll /\ [][NextAll]_vars

(***************************************************************************)
(* SpecRace: the MongoDB-backed servers with up to MaxInflight requests    *)
(* suspended at their awaits, so that the find of one update or delete     *)
(* can run between the find and the write of another.                      *)
(***************************************************************************)
\* two updates that set one field to two values
RaceBodies == {[title |-> "Pie"], [title |-> "Cake"]}

InitRace == InitWith({"srv", "exp"}, MaxInflight)

NextRace ==
    \/ ReadResponse
    \/ \E username \in Usernames :
           \/ SrvRegister(username, "secret1")
           \/ ExpRegister(username, "secret1")
    \/ \E p \in BagToSet(reqs), salt \in Salts :
           \/ SrvRegisterSave(p, salt)
           \/ ExpRegisterSave(p, salt)
    \/ \E username \in Usernames :
           \/ SrvLogin(username, "secret1")
           \/ ExpLogin(username, "secret1")
    \/ \E auth \in AuthInputs :
           \/ SrvCreate(auth, TeaFields)
           \/ ExpCreate(auth, TeaFields)
    \/ \E auth \in AuthInputs, id \in IdInputs, body \in RaceBodies :
           \/ SrvUpdateFind(auth, id, body)
           \/ ExpUpdateFind(auth, id, body)
    \/ Delete
    \/ ContinueWrite

SpecRace == InitRace /\ [][NextRace]_vars

(***************************************************************************)
(* SpecRestart: the in-memory server started again.  Its arrays are empty  *)
(* (part_001:36-37), while the secret is the same as before (part_001:10), *)
(* so a client still holds a token the earlier process signed for it.      *)
(***************************************************************************)
InitRestart ==
    /\ variant = "mem"
    /\ limit = 1
    /\ now = 0
    /\ ticks = 0
    /\ users = <<>>
    /\ recipes = <<>>
    /\ madeBy = <<>>
    /\ nextOid = 1
    /\ cachedConnection = FALSE
    /\ readyState = 0
    /\ reqs = EmptyBag
    /\ res = NoResponse
    /\ \E username \in Usernames :
           wallet = {MemGenerateToken([username |-> username])}

NextRestart ==
    \/ ReadResponse
    \/ \E step \in TickSteps : Tick(step)
    \/ \E username \in Usernames : MemRegister(username, "secret1")
    \/ \E username \in Usernames, password \in Passwords :
           MemLogin(username, password)
    \/ \E auth \in AuthInputs, body \in CreateBodies : MemCreate(auth, body)
    \/ \E auth \in AuthInputs, id \in IdInputs, body \in UpdateBodies :
           MemUpdate(auth, id, body)
    \/ \E auth \in AuthInputs, id \in IdInputs : MemDelete(auth, id)

SpecRestart == InitRestart /\ [][NextRestart]_vars

(***************************************************************************)
(* SpecConnect: the two servers that cache their connection, serving       *)
(* requests one at a time while the connection can be lost.                *)
(***************************************************************************)
InitConnect == InitWith({"srv", "exp"}, 1)

NextConnect ==
    \/ ReadResponse
    \/ Disconnect
    \/ \E username \in Usernames :
           \/ SrvRegister(username, "secret1")
           \/ ExpRegister(username, "secret1")
    \/ \E p \in BagToSet(reqs), salt \in Salts :
           \/ SrvRegisterSave(p, salt)
           \/ ExpRegisterSave(p, salt)
    \/ \E username \in Usernames :
           \/ SrvLogin(username, "secret1")
           \/ ExpLogin(username, "secret1")
    \/ \E auth \in ReadAuthInputs :
           \/ SrvList(auth, DefaultQuery)
           \/ ExpList(auth, DefaultQuery)
    \/ \E auth \in ReadAuthInputs, id \in IdInputs :
           \/ SrvGet(auth, id)
           \/ ExpGet(auth, id)

SpecConnect == InitConnect /\ [][NextConnect]_vars

(***************************************************************************)
(* Vocabulary of the properties.  A response in res carries the request it *)
(* answers and the store calls made for it, so a property of a handler is  *)
(* read off the step that sets res.                                        *)
(***************************************************************************)
ProtectedOps == {"create", "update", "delete", "review"}

Success(status) == status \in {200, 201, 204}

\* the step answers a request; the request arrived in this very step
Answers == res = NoResponse /\ res' # NoResponse
AnswersArrival == Answers /\ reqs' = reqs

\* the requests this step suspends
Suspended == {p \in BagToSet(reqs') : CopiesIn(p, reqs') > CopiesIn(p, reqs)}

\* the token was signed by the server (it may have expired since)
Genuine(auth) ==
    ExtractToken(auth).kind = "jwt" /\ ExtractToken(auth).key = ServerKey

\* the token is one jwt.verify accepts now
Valid(auth) == JwtVerify(ExtractToken(auth)) = "ok"

\* the identity a genuine token carries, as createdBy records identities
Identity(auth) ==
    LET claim == ExtractToken(auth).payload IN
    IF variant = "mem" THEN claim.username
    ELSE IF variant = "fn" THEN claim.id
    ELSE claim.userId

RecipeId(recipe) == IF variant = "mem" THEN recipe.id ELSE recipe._id

\* the recipe a path id names: the first with that id, 0 when there is none
Target(id) == FindIndex([i \in 1..Len(recipes) |-> RecipeId(recipes[i]) = id])

NoRecipeWith(id) == Target(id) = 0

WellFormedId(id) == variant = "mem" \/ IsValidObjectId(id)

Taken(username) == \E i \in 1..Len(users) : users[i].username = username

\* the calls that read or write a collection (opening the connection is not one)
StoreCalls(calls) == SelectSeq(calls, LAMBDA c : c # "mongoose.connect")

(***************************************************************************)
(* Ownership.                                                              *)
(***************************************************************************)
\* C1: an update or delete authenticated as B leaves every recipe that
\* another user created in the store as it was, and when the recipe it
\* names was created by another user it does not succeed (the claim says
\* more: it is answered 403).
C1OnlyCreatorUpdatesOrDeletes ==
    [][(/\ Answers
        /\ res'.req.op \in {"update", "delete"}
        /\ Genuine(res'.req.auth))
       => \A i \in 1..Len(recipes) :
              madeBy[i] # Identity(res'.req.auth)
              => /\ \E j \in 1..Len(recipes') :
                        recipes'[j] = recipes[i] /\ madeBy'[j] = madeBy[i]
                 /\ i = Target(res'.req.id) => ~Success(res'.status)]_vars

\* C2: every stored recipe's createdBy is the identity recorded when the
\* recipe was created.
C2CreatedByImmutable ==
    \A i \in 1..Len(recipes) : recipes[i].createdBy = madeBy[i]

\* C3: a step that stores a new recipe answers a create request whose token
\* verifies, and the new recipe's createdBy is the identity of that token,
\* whatever the body says.
C3CreatedByFromToken ==
    [][Len(recipes') = Len(recipes) + 1
       => /\ res'.req.op = "create"
          /\ Valid(res'.req.auth)
          /\ recipes'[Len(recipes')].createdBy = Identity(res'.req.auth)
          /\ madeBy'[Len(recipes')] = Identity(res'.req.auth)]_vars

\* a create whose body names another creator has stored the token's identity
C3Witness ==
    /\ res.req.op = "create"
    /\ Success(res.status)
    /\ "createdBy" \in DOMAIN res.req.body
    /\ res.req.body.createdBy # Identity(res.req.auth)
    /\ recipes[Len(recipes)].createdBy = Identity(res.req.auth)

(***************************************************************************)
(* The guard.                                                              *)
(***************************************************************************)
\* C4: a protected request whose token is missing, malformed, forged or
\* expired is answered 401 or 403 in the step it arrives, with no call on a
\* collection and with users and recipes unchanged; it is never suspended.
C4HardGate ==
    [][/\ (/\ AnswersArrival
           /\ res'.req.op \in ProtectedOps
           /\ ~Valid(res'.req.auth))
          => /\ res'.status \in {401, 403}
             /\ StoreCalls(res'.calls) = <<>>
             /\ users' = users
             /\ recipes' = recipes
       /\ \A p \in Suspended :
              p.req.op \in ProtectedOps => Valid(p.req.auth)]_vars

\* C5: a protected request with no Authorization header is answered 401,
\* with no call on a collection made for it.
C5NoHeaderIs401 ==
    (res.req.op \in ProtectedOps /\ res.req.auth = NoHeader)
    => (res.status = 401 /\ StoreCalls(res.calls) = <<>>)

(***************************************************************************)
(* Existence before ownership.                                             *)
(***************************************************************************)
\* C6: an update or delete with a verified token, for an id no stored recipe
\* has, is answered 404.
C6MissingIs404 ==
    [][(/\ AnswersArrival
        /\ res'.req.op \in {"update", "delete"}
        /\ Valid(res'.req.auth)
        /\ NoRecipeWith(res'.req.id))
       => res'.status = 404]_vars

\* C6 amended: such a request is never answered 403 and never succeeds, it
\* changes no recipe, and it is answered 404 whenever the id is well formed
\* and the store is connected (400 for an id that is no ObjectId, 500 when
\* the connection fails); no such request goes on to the write.
C6MissingNeverForbidden ==
    [][/\ (/\ AnswersArrival
           /\ res'.req.op \in {"update", "delete"}
           /\ Valid(res'.req.auth)
           /\ NoRecipeWith(res'.req.id))
          => /\ res'.status \in {400, 404, 500}
             /\ recipes' = recipes
             /\ madeBy' = madeBy
             /\ (WellFormedId(res'.req.id)
                   /\ (variant = "mem" \/ readyState' = 1))
                => res'.status = 404
             /\ res'.status = 400 => ~WellFormedId(res'.req.id)
             /\ res'.status = 500 => readyState' # 1
       /\ \A p \in Suspended :
              p.req.op \in {"update", "delete"} => ~NoRecipeWith(p.req.id)]_vars

\* a user who created none of the stored recipes is told 404 for a missing id
C6Witness ==
    /\ res.req.op \in {"update", "delete"}
    /\ res.status = 404
    /\ Valid(res.req.auth)
    /\ NoRecipeWith(res.req.id)
    /\ Len(recipes) > 0
    /\ \A i \in 1..Len(recipes) : recipes[i].createdBy # Identity(res.req.auth)

(***************************************************************************)
(* Registration.                                                           *)
(***************************************************************************)
\* the request passes the checks a register handler makes on its fields
\* before it looks the username up
PassesFieldChecks(req) ==
    IF variant = "mem" THEN TRUE
    ELSE IF variant = "fn" THEN req.username # "" /\ req.password # ""
    ELSE req.username # "" /\ req.password # "" /\ Len(req.password) >= 6

\* C7: a register whose username is in the user store is answered 400
\* 'Username already exists', whatever its password, and the user store is
\* unchanged.
C7DuplicateUsername ==
    [][(/\ AnswersArrival
        /\ res'.req.op = "register"
        /\ Taken(res'.req.username))
       => /\ res'.status = 400
          /\ res'.error = "Username already exists"
          /\ users' = users]_vars

\* C7 amended: a register whose username is in the user store never
\* succeeds and leaves the user store unchanged; it is answered 400 unless
\* the connection to the store fails (500), and 400 'Username already
\* exists' whenever the request passes the handler's field checks, which in
\* srv and exp reject a missing or short password first.  It is not
\* suspended for the save.
C7DuplicateNeverRegisters ==
    [][/\ (/\ AnswersArrival
           /\ res'.req.op = "register"
           /\ Taken(res'.req.username))
          => /\ res'.status \in {400, 500}
             /\ users' = users
             /\ res'.status = 500 => (variant # "mem" /\ readyState' # 1)
             /\ (PassesFieldChecks(res'.req)
                   /\ (variant = "mem" \/ readyState' = 1))
                => (res'.status = 400
                      /\ res'.error = "Username already exists")
       /\ \A p \in Suspended :
              p.req.op = "register" => ~Taken(p.req.username)]_vars

\* a taken username registered again with another password than the stored
\* user's is answered 'Username already exists'
C7Witness ==
    /\ res.req.op = "register"
    /\ res.status = 400
    /\ res.error = "Username already exists"
    /\ \E i \in 1..Len(users) :
           /\ users[i].username = res.req.username
           /\ users[i].password # res.req.password
           /\ ~BcryptCompare(res.req.password, users[i].password)

\* C8: no two stored users have the same username.
C8UsernamesUnique ==
    \A i, j \in 1..Len(users) :
        users[i].username = users[j].username => i = j

\* two registers of one username both passed the lookup; the save of the
\* second was rejected
C8Witness ==
    /\ res.req.op = "register"
    /\ res.status = 500
    /\ readyState = 1
    /\ Len(res.calls) > 0
    /\ res.calls[Len(res.calls)] = "user.save"
    /\ Taken(res.req.username)

\* C9: a register whose password is shorter than 6 characters does not
\* succeed (the claim says more: it is answered 400), so that no user is
\* ever registered with such a password.
C9WeakPasswordRejected ==
    (res.req.op = "register" /\ Len(res.req.password) < 6)
    => ~Success(res.status)

(***************************************************************************)
(* Credentials.                                                            *)
(***************************************************************************)
IsBcryptHash(stored) ==
    \E password \in Passwords, rounds \in {RoundsFn, RoundsSrv}, salt \in Salts :
        stored = BcryptHash(password, rounds, salt)

\* C10: the password stored for every user is the salted hash of a password
\* and never a password itself, and a login succeeds only for a password
\* that bcrypt's compare matches with the stored hash.
C10PasswordsHashed ==
    /\ \A i \in 1..Len(users) :
           IsBcryptHash(users[i].password) /\ users[i].password \notin Passwords
    /\ (res.req.op = "login" /\ Success(res.status))
       => \E i \in 1..Len(users) :
              /\ users[i].username = res.req.username
              /\ BcryptCompare(res.req.password, users[i].password)

(***************************************************************************)
(* Login.                                                                  *)
(***************************************************************************)
\* the stored user was registered with this password: the stored credential
\* is the password (mem) or a bcrypt hash made from it
RegisteredWith(user, password) ==
    IF variant = "mem" THEN user.password = password
    ELSE \E rounds \in {RoundsFn, RoundsSrv}, salt \in Salts :
             user.password = BcryptHash(password, rounds, salt)

\* C11: a login with the pair a stored user was registered with succeeds,
\* and the claim of the token it returns carries that username.
C11RegisterThenLogin ==
    (/\ res.req.op = "login"
     /\ \E i \in 1..Len(users) :
            /\ users[i].username = res.req.username
            /\ RegisteredWith(users[i], res.req.password))
    => /\ Success(res.status)
       /\ "token" \in DOMAIN res.data
       /\ JwtVerify(res.data.token) = "ok"
       /\ "username" \in DOMAIN res.data.token.payload
       /\ res.data.token.payload.username = res.req.username

\* the login names no stored user / names one with another password than
\* the one it was registered with
UnknownUsername(req) == ~Taken(req.username)

WrongPassword(req) ==
    \E i \in 1..Len(users) :
        /\ users[i].username = req.username
        /\ ~RegisteredWith(users[i], req.password)

\* C12: with the store connected, a login that gives a password and names
\* no stored user, and one that names a stored user with a wrong password,
\* get one and the same answer: 401 'Invalid credentials'.
C12NoUsernameEnumeration ==
    (/\ res.req.op = "login"
     /\ res.req.password # ""
     /\ variant = "mem" \/ readyState = 1
     /\ UnknownUsername(res.req) \/ WrongPassword(res.req))
    => /\ res.status = 401
       /\ res.error = "Invalid credentials"
       /\ res.message = ""
       /\ res.data = NoData

(***************************************************************************)
(* Reads.                                                                  *)
(***************************************************************************)
\* the recipes a list response carries
Listed(data) ==
    IF "array" \in DOMAIN data THEN data.array
    ELSE IF "recipes" \in DOMAIN data THEN data.recipes
    ELSE <<>>

\* the id a returned recipe carries
ReturnedId(doc) ==
    IF "id" \in DOMAIN doc THEN doc.id
    ELSE IF "_id" \in DOMAIN doc THEN doc._id
    ELSE ""

\* C13: a list or a get-by-id sent with no token or with a token that does
\* not verify is never answered 401 or 403; a list that succeeds with no
\* page and limit shows every stored recipe (up to the default limit),
\* whoever created it, and a get that names a stored recipe succeeds.
C13ReadsArePublic ==
    (res.req.op \in {"list", "get"} /\ ~Valid(res.req.auth))
    => /\ res.status \notin {401, 403}
       /\ (/\ res.req.op = "list"
           /\ Success(res.status)
           /\ res.req.body = [page |-> "absent", limit |-> "absent"]
           /\ Len(recipes) <= DefaultLimit)
          => {ReturnedId(Listed(res.data)[i]) : i \in 1..Len(Listed(res.data))}
                 = {RecipeId(recipes[i]) : i \in 1..Len(recipes)}
       /\ (/\ res.req.op = "get"
           /\ ~NoRecipeWith(res.req.id)
           /\ variant = "mem" \/ readyState = 1)
          => (Success(res.status) /\ ReturnedId(res.data) = res.req.id)

\* C14: a recipe created from a body that carries title, ingredients,
\* instructions, cookingTime and servings is returned by get-by-id with each
\* of these fields as it was sent, and with its id, createdAt and createdBy.
\* (Every stored recipe was created from such a body: a body without a
\* title is refused where it is validated, and no request here updates.)
C14CreateThenGet ==
    (res.req.op = "get" /\ Success(res.status))
    => /\ \A k \in DOMAIN TeaFields :
            k \in DOMAIN res.data /\ res.data[k] = TeaFields[k]
       /\ ReturnedId(res.data) = res.req.id
       /\ "createdAt" \in DOMAIN res.data
       /\ "createdBy" \in DOMAIN res.data

\* the client named a positive page and a positive limit
PositiveQuery(query) ==
    /\ ~ParseInt(query.page).nan /\ ParseInt(query.page).n > 0
    /\ ~ParseInt(query.limit).nan /\ ParseInt(query.limit).n > 0

Min(a, b) == IF a < b THEN a ELSE b
Max(a, b) == IF a > b THEN a ELSE b

\* C15: with N recipes stored, a list that succeeds for page p and limit L
\* reports total = N and pages = ceil(N / L) (the least k with k * L >= N),
\* and carries min(L, max(0, N - (p - 1) * L)) recipes.
C15Pagination ==
    (/\ res.req.op = "list"
     /\ Success(res.status)
     /\ PositiveQuery(res.req.body))
    => LET N == Len(recipes)
           p == ParseInt(res.req.body.page).n
           L == ParseInt(res.req.body.limit).n
       IN /\ "pagination" \in DOMAIN res.data
          /\ res.data.pagination.total = N
          /\ res.data.pagination.pages * L >= N
          /\ (res.data.pagination.pages - 1) * L < N
          /\ Len(Listed(res.data)) = Min(L, Max(0, N - (p - 1) * L))

\* a query value that names no positive integer and no negative one: the
\* parameter is absent, is not a number, or is zero
FallsBack(text) == ParseInt(text).nan \/ ParseInt(text).n = 0

\* C16: whatever the client gives for page and limit (nothing, a text that
\* is no number, zero, a negative number, a positive number), the page and
\* the limit a paginated list answers with are positive integers, 1 and 10
\* where the value given is absent, not a number or zero.
C16PageAndLimitPositive ==
    (/\ res.req.op = "list"
     /\ Success(res.status)
     /\ "pagination" \in DOMAIN res.data)
    => /\ res.data.pagination.page >= 1
       /\ res.data.pagination.limit >= 1
       /\ FallsBack(res.req.body.page) => res.data.pagination.page = DefaultPage
       /\ FallsBack(res.req.body.limit) => res.data.pagination.limit = DefaultLimit

\* the recipes a list response leaves out before its first one: those of
\* the pages before it
Skipped(data) ==
    IF "pagination" \in DOMAIN data
    THEN (data.pagination.page - 1) * data.pagination.limit
    ELSE 0

\* C17: a list shows the recipes newest first, within a page and from one
\* page to the next: recipes are stored in the order of their creation (no
\* request here deletes), and the i-th recipe of a response that left out
\* `Skipped` recipes is the (Skipped + i)-th newest recipe stored.
C17NewestFirst ==
    (/\ res.req.op = "list"
     /\ Success(res.status)
     /\ "pagination" \in DOMAIN res.data
            => (res.data.pagination.page >= 1 /\ res.data.pagination.limit >= 1))
    => \A i \in 1..Len(Listed(res.data)) :
          /\ Skipped(res.data) + i <= Len(recipes)
          /\ ReturnedId(Listed(res.data)[i])
                = RecipeId(recipes[Len(recipes) - (Skipped(res.data) + i) + 1])

GenericErrors == {"Internal server error", "Internal Server Error"}

\* C19: a response with status 500 carries a generic error string and
\* nothing else: no message of the error that was caught, no document.
C19NoInternalDetail ==
    res.status = 500
    => /\ res.error \in GenericErrors
       /\ res.message = ""
       /\ res.data = NoData

(***************************************************************************)
(* Token verification.                                                     *)
(***************************************************************************)
\* what the variant's token check answers a header with: status 0 where it
\* lets the request through
AuthAnswer(auth) ==
    IF variant = "mem"
    THEN [status |-> MemAuthenticateToken(auth).status,
          error |-> MemAuthenticateToken(auth).error]
    ELSE IF variant = "exp"
    THEN [status |-> ExpAuthenticateToken(auth).status,
          error |-> ExpAuthenticateToken(auth).error]
    ELSE IF variant = "srv"
    THEN [status |-> IF SrvAuthenticateToken(auth).error = "" THEN 0 ELSE 401,
          error |-> SrvAuthenticateToken(auth).error]
    ELSE [status |-> IF Valid(auth) THEN 0 ELSE 401,
          error |-> IF Valid(auth) THEN "" ELSE "Unauthorized"]

\* the lifetime the variant's tokens are to have, in seconds
Lifetime == IF variant = "mem" THEN ExpiresInMem ELSE ExpiresInDb

\* the token is one this service signed, and it is past its expiration
Expired(auth) == Genuine(auth) /\ NowSeconds >= ExtractToken(auth).exp

\* C20: a protected request succeeds only with a token this service signed,
\* before the token's expiration, which is its issue time plus 24 hours in
\* the persistent variants and plus 1 hour in the in-memory one; and the
\* answer to an expired token is not the answer given to a malformed token
\* nor the one given to no token, and the answer to no token is not the one
\* given to a malformed token.
C20TokenVerification ==
    res.req.op \in ProtectedOps
    => LET given == [status |-> res.status, error |-> res.error]
           missing == AuthAnswer(NoHeader)
           invalid == AuthAnswer(Bearer(MalformedToken))
       IN /\ Success(res.status)
               => /\ Genuine(res.req.auth)
                  /\ NowSeconds < ExtractToken(res.req.auth).exp
                  /\ ExtractToken(res.req.auth).exp
                        = ExtractToken(res.req.auth).iat + Lifetime
          /\ Expired(res.req.auth) => (given # invalid /\ given # missing)
          /\ res.req.auth = NoHeader => given # invalid

(***************************************************************************)
(* The user store.                                                         *)
(***************************************************************************)
\* C21: every step keeps the users already stored, in place and as they
\* were; a step that changes the user store adds one user at its end, and
\* it is the step that answers a register request for that username with
\* success.  (So login, create, list, get, update, delete and review leave
\* the user store as it was.)
C21UsersOnlyGrow ==
    [][/\ Len(users') >= Len(users)
       /\ SubSeq(users', 1, Len(users)) = users
       /\ users' # users
            => /\ Len(users') = Len(users) + 1
               /\ res'.req.op = "register"
               /\ Success(res'.status)
               /\ users'[Len(users')].username = res'.req.username]_vars

\* with two users stored, two recipes were created and one was deleted
C21Witness ==
    /\ Len(users) = 2
    /\ res.req.op = "delete"
    /\ Success(res.status)
    /\ Len(recipes) = 1

(***************************************************************************)
(* Interleaved requests.                                                   *)
(***************************************************************************)
\* the step is the write of an update or delete that was suspended after
\* its checks
WriteStep ==
    /\ Answers
    /\ reqs' # reqs
    /\ res'.req.op \in {"update", "delete"}

\* C22: the write of an update or delete checks nothing again.  Whatever
\* happened to the recipe since the request's existence and ownership
\* checks, the write is made and answered 200 (500 only when the connection
\* is gone): an update sets its title over the one stored, so the later of
\* two writes wins, and it is answered 200 also when the recipe has been
\* deleted in between; a delete leaves no recipe with the id.
C22WriteWithoutRecheck ==
    [][WriteStep
       => /\ res'.status \in {200, 500}
          /\ res'.status = 500 => readyState # 1
          /\ (res'.status = 200 /\ res'.req.op = "update")
                => /\ Len(recipes') = Len(recipes)
                   /\ \A i \in 1..Len(recipes) :
                         IF recipes[i]._id = res'.req.id
                         THEN recipes'[i].title = res'.req.body.title
                         ELSE recipes'[i] = recipes[i]
          /\ (res'.status = 200 /\ res'.req.op = "delete")
                => \A i \in 1..Len(recipes') : recipes'[i]._id # res'.req.id]_vars

\* (b) an update passed its checks, a delete removed the recipe, and the
\* update made its write and was answered 200
C22Witness ==
    /\ res.req.op = "update"
    /\ Success(res.status)
    /\ IsValidObjectId(res.req.id)
    /\ res.req.id # MissingId
    /\ NoRecipeWith(res.req.id)

\* (a) two updates of one recipe by its owner passed their checks; the
\* first has written its title, the second is still to write another
C22LostUpdate ==
    /\ res.req.op = "update"
    /\ Success(res.status)
    /\ \E p \in BagToSet(reqs) :
          /\ p.req.op = "update"
          /\ p.req.id = res.req.id
          /\ p.req.auth = res.req.auth
          /\ p.req.body.title # res.req.body.title
          /\ \E i \in 1..Len(recipes) :
                /\ recipes[i]._id = res.req.id
                /\ recipes[i].title = res.req.body.title
                /\ recipes[i].createdBy = Identity(res.req.auth)

(***************************************************************************)
(* The order of the checks of update and delete.                           *)
(***************************************************************************)
\* the stored recipe the id names was created by the identity of the token
OwnedBy(id, auth) ==
    /\ ~NoRecipeWith(id)
    /\ recipes[Target(id)].createdBy = Identity(auth)

\* every check of update and delete passes: token, id, existence, ownership
PassesChecks(req) ==
    /\ Valid(req.auth)
    /\ WellFormedId(req.id)
    /\ OwnedBy(req.id, req.auth)

\* C23: an update or delete is answered by the first check that fails, in
\* the order token (401 or 403), id well formed (400), recipe stored (404),
\* requester is the creator (403), the last three with the store reachable;
\* and the write is made, or the request suspended before its write, only
\* when every check passed.
C23FixedOrder ==
    [][/\ (AnswersArrival /\ res'.req.op \in {"update", "delete"})
          => /\ ~Valid(res'.req.auth)
                  => (res'.status \in {401, 403} /\ recipes' = recipes)
             /\ (Valid(res'.req.auth) /\ (variant = "mem" \/ readyState' = 1))
                  => IF ~WellFormedId(res'.req.id) THEN res'.status = 400
                     ELSE IF NoRecipeWith(res'.req.id) THEN res'.status = 404
                     ELSE IF ~OwnedBy(res'.req.id, res'.req.auth)
                     THEN res'.status = 403
                     ELSE Success(res'.status)
             /\ recipes' # recipes => PassesChecks(res'.req)
       /\ \A p \in Suspended :
              p.req.op \in {"update", "delete"} => PassesChecks(p.req)]_vars

(***************************************************************************)
(* The creator of a recipe is a stored user.                               *)
(***************************************************************************)
\* what createdBy records of a user: the username in the in-memory server,
\* the _id elsewhere
UserKey(user) == IF variant = "mem" THEN user.username ELSE user._id

\* C24: a step that stores a new recipe stores it with a createdBy that is
\* the key of a user in the user store.
C24CreatedByIsStoredUser ==
    [][Len(recipes') = Len(recipes) + 1
       => \E i \in 1..Len(users') :
             UserKey(users'[i]) = recipes'[Len(recipes')].createdBy]_vars

(***************************************************************************)
(* Errors leave the stores alone.                                          *)
(***************************************************************************)
ClientErrors == {400, 401, 403, 404}

\* C25: a step that answers a register, login, create, update, delete or
\* review request with 400, 401, 403 or 404 leaves the user store and the
\* recipe store as they were.
C25ErrorLeavesStores ==
    [][(/\ Answers
        /\ res'.req.op \in {"register", "login", "create", "update", "delete", "review"}
        /\ res'.status \in ClientErrors)
       => (users' = users /\ recipes' = recipes)]_vars

\* a user who did not create the stored recipe is refused its deletion
C25Witness ==
    /\ res.req.op = "delete"
    /\ res.status = 403
    /\ Valid(res.req.auth)
    /\ Len(users) = 2
    /\ ~NoRecipeWith(res.req.id)
    /\ recipes[Target(res.req.id)].createdBy # Identity(res.req.auth)

(***************************************************************************)
(* Registrations of one username that interleave.                          *)
(***************************************************************************)
\* the step is the save of a registration that was suspended after its
\* findOne found no user
SaveStep ==
    /\ Answers
    /\ reqs' # reqs
    /\ res'.req.op = "register"

\* C26: in src/api/index.js and the express + mongoose server, when the
\* save of a registration runs after another registration has stored the
\* username (both ran their findOne before either saved) and the store is
\* reachable, the user store keeps its one user of that name and the
\* request is answered 400 'Username already exists'; the save that finds
\* the username free stores the user and is answered 201.
C26InterleavedRegister ==
    [][(SaveStep /\ variant \in {"srv", "exp"} /\ readyState = 1)
       => IF Taken(res'.req.username)
          THEN /\ users' = users
               /\ res'.status = 400
               /\ res'.error = "Username already exists"
          ELSE /\ Len(users') = Len(users) + 1
               /\ res'.status = 201]_vars

(***************************************************************************)
(* The in-memory server's recipe ids.                                      *)
(***************************************************************************)
\* C27: in the in-memory server no two stored recipes have the same id.
C27MemIdsUnique ==
    variant = "mem"
    => \A i, j \in 1..Len(recipes) :
          recipes[i].id = recipes[j].id => i = j

\* C28: in the in-memory server a step that answers an update with success
\* keeps the number of recipes, leaves the updated recipe (the first with
\* the id of the path) with that id, whatever id the body carries, and
\* leaves every other recipe as it was.
C28MemUpdateFrame ==
    [][(/\ Answers
        /\ variant = "mem"
        /\ res'.req.op = "update"
        /\ Success(res'.status))
       => /\ Len(recipes') = Len(recipes)
          /\ ~NoRecipeWith(res'.req.id)
          /\ recipes'[Target(res'.req.id)].id = res'.req.id
          /\ res'.data.id = res'.req.id
          /\ \A j \in 1..Len(recipes) :
                j # Target(res'.req.id) => recipes'[j] = recipes[j]]_vars

\* the second of two recipes was updated with a body that carries another id
C28Witness ==
    /\ variant = "mem"
    /\ res.req.op = "update"
    /\ Success(res.status)
    /\ "id" \in DOMAIN res.req.body
    /\ res.req.body.id # res.req.id
    /\ Len(recipes) = 2
    /\ recipes[2].id = res.req.id
    /\ recipes[1].id # res.req.id

(***************************************************************************)
(* What a delete removes.                                                  *)
(***************************************************************************)
\* C29: a step that answers a delete with success removes the recipe the id
\* names and nothing else: the recipes before it stay in place, those after
\* it move up by one, each as it was, and no stored recipe has the id any
\* more (so that a later get, update or delete of the id finds nothing and
\* a list does not show it).
C29DeleteRemovesTarget ==
    [][(/\ Answers
        /\ res'.req.op = "delete"
        /\ Success(res'.status))
       => /\ ~NoRecipeWith(res'.req.id)
          /\ Len(recipes') = Len(recipes) - 1
          /\ \A j \in 1..Len(recipes') :
                recipes'[j] = IF j < Target(res'.req.id)
                              THEN recipes[j] ELSE recipes[j + 1]
          /\ \A j \in 1..Len(recipes') :
                RecipeId(recipes'[j]) # res'.req.id]_vars

(***************************************************************************)
(* The cached connection.                                                  *)
(***************************************************************************)
\* the step takes a request in: it answers it at once or suspends it
Arrival == AnswersArrival \/ Suspended # {}

\* the calls made for the request the step takes in
ArrivalCalls ==
    IF Suspended # {} THEN (CHOOSE p \in Suspended : TRUE).calls ELSE res'.calls

ConnectCalled == \E i \in 1..Len(ArrivalCalls) : ArrivalCalls[i] = "mongoose.connect"

\* connectToDatabase returns the cached connection: it is cached and, in
\* the serverless handler, in ready state 1
CacheHit == cachedConnection /\ (variant = "exp" \/ readyState = 1)

\* connectToDatabase threw: the request is answered 500 before any call on
\* a collection
ConnectFailed == ~CacheHit /\ res'.status = 500 /\ StoreCalls(res'.calls) = <<>>

\* C30 as stated: a failed connectToDatabase leaves cachedConnection null,
\* and a call that finds the connection cached (in the serverless handler:
\* and in ready state 1) does not call mongoose.connect.
C30FailedLeavesNull ==
    [][Arrival
       => /\ ConnectFailed => ~cachedConnection'
          /\ CacheHit => ~ConnectCalled]_vars

\* C30, amended: a failed connectToDatabase leaves cachedConnection as it
\* was (null unless an earlier connect succeeded) and the ready state as it
\* was, so the next request attempts to connect again; cachedConnection
\* becomes set only in a step that called mongoose.connect with success;
\* and a call that finds the connection cached (in the serverless handler:
\* and in ready state 1) returns it without calling mongoose.connect.
C30CacheOnlyOnSuccess ==
    [][Arrival
       => /\ CacheHit
               => /\ ~ConnectCalled
                  /\ cachedConnection'
                  /\ readyState' = readyState
          /\ ConnectFailed
               => /\ cachedConnection' = cachedConnection
                  /\ readyState' = readyState
                  /\ ~CacheHit'
          /\ (~CacheHit /\ ~ConnectFailed)
               => /\ ConnectCalled
                  /\ cachedConnection'
                  /\ readyState' = 1
          /\ (cachedConnection' /\ ~cachedConnection)
               => (ConnectCalled /\ readyState' = 1)]_vars

\* the serverless handler lost its connection and failed to connect again:
\* the connection of the earlier connect is still in cachedConnection
C30Witness ==
    /\ variant = "srv"
    /\ cachedConnection
    /\ readyState = 0
    /\ res.status = 500
    /\ res.calls = <<"mongoose.connect">>

====
